---------------------------- MODULE Spec2Model ----------------------------
(***************************************************************************)
(* Magic Triples: counting index triples (i, j, k), pairwise distinct,     *)
(* with a[j]*a[j] = a[i]*a[k].  The module models the four scripts of the  *)
(* repository:                                                             *)
(*   Empirical Testing Script.py  list_triplets_bruteforce,                *)
(*                                count_triplets_optimized, debug_compare  *)
(*   Graph.py                     naive_triplets, optimized_triplets,      *)
(*                                run_benchmark                            *)
(*   solve_naive.py               solve_naive_unordered                    *)
(*   solve_optimized.py           solve_optimized                          *)
(* Python sequences are 0-based, the sequences here 1-based; only index    *)
(* identity matters to the counts.  Python integers are unbounded.         *)
(***************************************************************************)
EXTENDS Integers, Sequences, FiniteSets, TLC

VARIABLES
  a,          \* the input sequence handed to the next script
  prog,       \* the script that ran last on a, "none" if none has yet
  outcome,    \* how that run ended: "none" (no run) or "returned"
  mode,       \* debug_compare's mode argument
  cnt_brute,  \* debug_compare: len(list_triplets_bruteforce(a))
  opt,        \* debug_compare: count_triplets_optimized(a, mode)
  res_naive,  \* run_benchmark: naive_triplets(a)
  res_opt,    \* run_benchmark: optimized_triplets(a)
  count,      \* solve_naive_unordered: the count printed
  ret         \* solve_optimized: the count printed

vars == <<a, prog, outcome, mode, cnt_brute, opt, res_naive, res_opt, count, ret>>

(* ------------------------------ bounds --------------------------------- *)
(* Inputs of at most MaxWideLen values are drawn from 0..MaxVal; longer   *)
(* ones, of at most MaxLen values, from 1..MaxNarrowVal.                  *)
MaxWideLen == 3
MaxVal == 9
MaxLen == 5
MaxNarrowVal == 4
MaxLenBig == 3

Values == 0..MaxVal
Admissible(s) ==
  \/ Len(s) <= MaxWideLen
  \/ \A i \in 1..Len(s) : s[i] >= 1 /\ s[i] <= MaxNarrowVal
BigValues == {1, 5, 100, 1000, 10000, 100000, 1000000, 1000000000, 2000000000}

LIMIT == 1000000000

(* ------------------------------ helpers -------------------------------- *)
RECURSIVE SumSeq(_)
SumSeq(s) == IF s = <<>> THEN 0 ELSE Head(s) + SumSeq(Tail(s))

RECURSIVE SumFn(_)
SumFn(f) ==
  IF DOMAIN f = {} THEN 0
  ELSE LET x == CHOOSE y \in DOMAIN f : TRUE
       IN f[x] + SumFn([y \in DOMAIN f \ {x} |-> f[y]])

(* x * y for x, y >= 0, as Python computes it, except that a product above *)
(* 2^31 - 1 is reported as 2^31 - 1: that is above LIMIT and above every   *)
(* value of an input, which is all the scripts ask of such a product.      *)
Mul(x, y) == IF y > 0 /\ x > 2147483647 \div y THEN 2147483647 ELSE x * y

RECURSIVE IsqrtSearch(_, _, _)
IsqrtSearch(n, lo, hi) ==
  IF hi - lo <= 1 THEN lo
  ELSE LET m == (lo + hi) \div 2
       IN IF m * m <= n THEN IsqrtSearch(n, m, hi) ELSE IsqrtSearch(n, lo, m)

(* math.isqrt(n): the floor of the square root, n >= 0 *)
isqrt(n) == IsqrtSearch(n, 0, IF n < 46340 THEN n + 1 ELSE 46341)

(* ---------------------- collections.Counter ---------------------------- *)
RECURSIVE FirstOccurrences(_, _)
FirstOccurrences(s, seen) ==
  IF s = <<>> THEN <<>>
  ELSE IF Head(s) \in seen THEN FirstOccurrences(Tail(s), seen)
       ELSE <<Head(s)>> \o FirstOccurrences(Tail(s), seen \cup {Head(s)})

Counter_skipfirst(s) ==
  [keys |-> FirstOccurrences(SubSeq(s, 2, Len(s)), {}),
   cnt  |-> [v \in {s[i] : i \in 2..Len(s)} |->
               Cardinality({i \in 2..Len(s) : s[i] = v})]]

(* Counter(s): keys in insertion (first occurrence) order, and the        *)
(* multiplicity of each key                                               *)
Counter(s) ==
  [keys |-> FirstOccurrences(s, {}),
   cnt  |-> [v \in {s[i] : i \in 1..Len(s)} |->
               Cardinality({i \in 1..Len(s) : s[i] = v})]]

(* `x in freq` *)
In(x, freq) == x \in DOMAIN freq.cnt

(* freq.get(x, 0) *)
Get(freq, x) == IF x \in DOMAIN freq.cnt THEN freq.cnt[x] ELSE 0

sorted(s) == SortSeq(s, LAMBDA x, y : x < y)

(* Case b = 1, same value at three indices: the loop over freq.items()    *)
(* that opens count_triplets_optimized, optimized_triplets and            *)
(* solve_optimized alike                                                  *)
AllEqualTerm_exactly3(c) == IF c = 3 THEN c * (c - 1) * (c - 2) ELSE 0

AllEqualTerm(c) == IF c >= 3 THEN c * (c - 1) * (c - 2) ELSE 0

AllEqualCase(freq) ==
  SumSeq([n \in 1..Len(freq.keys) |-> AllEqualTerm(freq.cnt[freq.keys[n]])])

(* ------------------- Empirical Testing Script.py ----------------------- *)
list_triplets_bruteforce(s) ==
  {t \in (1..Len(s)) \X (1..Len(s)) \X (1..Len(s)) :
     /\ t[1] # t[2] /\ t[1] # t[3] /\ t[2] # t[3]
     /\ s[t[2]] * s[t[2]] = s[t[1]] * s[t[3]]}

(* the contribution of one pair (left, right) once both are known to be   *)
(* in freq: lines 46-69, 82-94 and 106-118 share this shape and differ in *)
(* what the left # right branch adds                                      *)
PairTerm(freq, mid, left, right, distinctAdd) ==
  IF In(left, freq) /\ In(right, freq)
  THEN IF left = mid /\ right = mid THEN 0
       ELSE IF left = right
            THEN freq.cnt[mid] * freq.cnt[left] * (freq.cnt[left] - 1)
            ELSE distinctAdd
  ELSE 0

(* lines 43-69: the pair (left = d, right = other) *)
DirectPair_noskip(freq, mid, d, other, m) ==
  IF In(d, freq) /\ In(other, freq)
  THEN IF d = other
       THEN freq.cnt[mid] * freq.cnt[d] * (freq.cnt[d] - 1)
       ELSE freq.cnt[mid] * freq.cnt[d] * freq.cnt[other]
  ELSE 0

DirectPair(freq, mid, d, other, m) ==
  PairTerm(freq, mid, d, other,
           IF m = "ordered"
           THEN freq.cnt[mid] * Get(freq, d) * Get(freq, other)
           ELSE freq.cnt[mid] * Get(freq, d) * Get(freq, other))

(* lines 72-94: the first symmetric block; its left2 # right2 branch is   *)
(* `pass`                                                                 *)
SymmetricPass(freq, mid, d, other, m) ==
  IF d # other /\ m = "ordered"
  THEN PairTerm(freq, mid, other, d, 0)
  ELSE 0

(* lines 98-118: the pair (other, d) when other lies beyond the root.     *)
(* int(m2**0.5) is the floor of the root here: m2 is below 2^52, where    *)
(* the correctly rounded double root truncates to the exact floor.        *)
MirrorPair_bothmodes(freq, mid, d, other, m) ==
  IF d # other /\ other > isqrt(mid * mid)
  THEN PairTerm(freq, mid, other, d,
                freq.cnt[mid] * Get(freq, other) * Get(freq, d))
  ELSE 0

MirrorPair_dropped(freq, mid, d, other, m) == 0

MirrorPair(freq, mid, d, other, m) ==
  IF d # other /\ other > isqrt(mid * mid)
  THEN PairTerm(freq, mid, other, d,
                IF m = "ordered"
                THEN freq.cnt[mid] * Get(freq, other) * Get(freq, d)
                ELSE 0)
  ELSE 0

(* lines 38-120: the while loop over d for one mid *)
RECURSIVE DivisorWhile(_, _, _, _)
DivisorWhile(freq, mid, d, m) ==
  LET m2 == mid * mid
  IN IF d * d <= m2
     THEN (IF m2 % d = 0
           THEN LET other == m2 \div d
                IN DirectPair(freq, mid, d, other, m)
                   + SymmetricPass(freq, mid, d, other, m)
                   + MirrorPair(freq, mid, d, other, m)
           ELSE 0)
          + DivisorWhile(freq, mid, d + 1, m)
     ELSE 0

(* lines 33-120: the loop over mid *)
GeneralCase(freq, m) ==
  LET unique == sorted(freq.keys)
  IN SumSeq([n \in 1..Len(unique) |-> DivisorWhile(freq, unique[n], 1, m)])

count_triplets_optimized(s, m) ==
  LET freq == Counter(s)
  IN AllEqualCase(freq) + GeneralCase(freq, m)

(* ------------------------------ Graph.py ------------------------------- *)
naive_triplets_k_may_equal_i(s) ==
  LET n == Len(s)
  IN SumSeq([i \in 1..n |->
       SumSeq([j \in 1..n |->
         IF j = i THEN 0
         ELSE SumSeq([k \in 1..n |->
                IF k = j THEN 0
                ELSE IF s[j] * s[j] = s[i] * s[k] THEN 1 ELSE 0])])])

naive_triplets(s) ==
  LET n == Len(s)
  IN SumSeq([i \in 1..n |->
       SumSeq([j \in 1..n |->
         IF j = i THEN 0
         ELSE SumSeq([k \in 1..n |->
                IF k = i \/ k = j THEN 0
                ELSE IF s[j] * s[j] = s[i] * s[k] THEN 1 ELSE 0])])])

(* lines 78-83: the divisors of mid, collected in a set *)
b_set(mid) ==
  LET r == isqrt(mid)
      D == {d \in 1..r : mid % d = 0}
  IN D \cup {mid \div d : d \in D}

(* lines 86-100: what one ratio b adds *)
RatioTerm(freq, mid, b) ==
  IF b <= 1 THEN 0
  ELSE LET left  == mid \div b
           right == Mul(mid, b)
       IN IF right > LIMIT THEN 0
          ELSE LET c_left  == Get(freq, left)
                   c_right == Get(freq, right)
               IN IF c_left # 0 /\ c_right # 0
                  THEN freq.cnt[mid] * c_left * c_right
                  ELSE 0

(* lines 72-100: one pass of the loop over mid *)
MidTerm(freq, mid) ==
  IF mid <= 1 THEN 0
  ELSE SumFn([b \in b_set(mid) |-> RatioTerm(freq, mid, b)])

optimized_triplets(s) ==
  LET freq   == Counter(s)
      unique == freq.keys
  IN AllEqualCase(freq)
     + SumSeq([n \in 1..Len(unique) |-> MidTerm(freq, unique[n])])

(* --------------------------- solve_naive.py ---------------------------- *)
solve_naive_unordered_from_i(s) ==
  LET n == Len(s)
  IN SumSeq([j \in 1..n |->
       SumSeq([i \in 1..n |->
         IF i = j THEN 0
         ELSE SumSeq([k \in 1..n |->
                IF k < i THEN 0
                ELSE IF k = j THEN 0
                ELSE IF s[j] * s[j] = s[i] * s[k] THEN 1 ELSE 0])])])

solve_naive_unordered(s) ==
  LET n == Len(s)
  IN SumSeq([j \in 1..n |->
       SumSeq([i \in 1..n |->
         IF i = j THEN 0
         ELSE SumSeq([k \in 1..n |->
                IF k < i + 1 THEN 0
                ELSE IF k = j THEN 0
                ELSE IF s[j] * s[j] = s[i] * s[k] THEN 1 ELSE 0])])])

(* -------------------------- solve_optimized.py ------------------------- *)
(* Each pass of a ratio loop that reaches a membership test is recorded   *)
(* as [b, left, right]: the ratio it stands for and the two neighbours    *)
(* it looks up.                                                           *)

(* lines 24-30: for b in range(lo, hi + 1), val >= 1,000,000.  The range  *)
(* is walked in increasing b, split in halves to keep the evaluation      *)
(* shallow.                                                               *)
RECURSIVE RangeLoop(_, _, _)
RangeLoop(val, lo, hi) ==
  IF lo > hi THEN <<>>
  ELSE IF lo = hi
       THEN (IF val % lo = 0
             THEN <<[b |-> lo, left |-> val \div lo, right |-> Mul(val, lo)]>>
             ELSE <<>>)
       ELSE LET h == (lo + hi) \div 2
            IN RangeLoop(val, lo, h) \o RangeLoop(val, h + 1, hi)

(* lines 43-48: the other factor of a divisor *)
OtherFactor_nodedup(val, divisor) ==
  LET other == val \div divisor
  IN IF other > 1
     THEN <<[b |-> other, left |-> divisor, right |-> Mul(val, other)]>>
     ELSE <<>>

OtherFactor(val, divisor) ==
  LET other == val \div divisor
  IN IF other # divisor /\ other > 1
     THEN <<[b |-> other, left |-> divisor, right |-> Mul(val, other)]>>
     ELSE <<>>

(* one pass of the while loop whose divisor divides val: lines 34-48 *)
DivisorPass(val, divisor) ==
  (IF divisor > 1
   THEN <<[b |-> divisor, left |-> val \div divisor,
           right |-> Mul(val, divisor)]>>
   ELSE <<>>)
  \o OtherFactor(val, divisor)

(* lines 32-49: the while loop over divisor, val < 1,000,000: the passes  *)
(* for divisor = lo..hi as long as divisor * divisor <= val, in           *)
(* increasing divisor, split in halves to keep the evaluation shallow     *)
RECURSIVE DivisorLoop(_, _, _)
DivisorLoop(val, lo, hi) ==
  IF lo > hi \/ Mul(lo, lo) > val THEN <<>>
  ELSE IF lo = hi
       THEN (IF val % lo = 0 THEN DivisorPass(val, lo) ELSE <<>>)
       ELSE LET h == (lo + hi) \div 2
            IN DivisorLoop(val, lo, h) \o DivisorLoop(val, h + 1, hi)

MaxB_exclusive(val) == (LIMIT \div val) - 1

(* line 24 *)
MaxB(val) == LIMIT \div val

(* lines 23-49: the ratios tried for one val, in the order tried *)
Ratios(val) ==
  IF val >= 1000000
  THEN RangeLoop(val, 2, MaxB(val))
  ELSE DivisorLoop(val, 1, val)

(* lines 29-30, 39-40, 47-48 *)
NeighbourTerm(freq, val, p) ==
  IF In(p.left, freq) /\ In(p.right, freq)
  THEN freq.cnt[val] * freq.cnt[p.left] * freq.cnt[p.right]
  ELSE 0

(* lines 20-49: one pass of the loop over val *)
ValTerm(freq, val) ==
  LET ps == Ratios(val)
  IN SumSeq([n \in 1..Len(ps) |-> NeighbourTerm(freq, val, ps[n])])

solve_optimized(s) ==
  LET freq        == Counter(s)
      unique_vals == freq.keys
  IN AllEqualCase(freq)
     + SumSeq([n \in 1..Len(unique_vals) |-> ValTerm(freq, unique_vals[n])])

(* ------------------------------ the runs ------------------------------- *)
Init ==
  /\ a = <<>>
  /\ prog = "none"
  /\ outcome = "none"
  /\ mode = "none"
  /\ cnt_brute = 0
  /\ opt = 0
  /\ res_naive = 0
  /\ res_opt = 0
  /\ count = 0
  /\ ret = 0

(* One behaviour is one run of one script: the input array is read value  *)
(* by value, then the script computes on it and reports, and is done.     *)
Extend(x, maxlen) ==
  /\ prog = "none"
  /\ Len(a) < maxlen
  /\ a' = Append(a, x)
  /\ prog' = "none"
  /\ outcome' = "none"
  /\ mode' = "none"
  /\ cnt_brute' = 0
  /\ opt' = 0
  /\ res_naive' = 0
  /\ res_opt' = 0
  /\ count' = 0
  /\ ret' = 0

ReadValue ==
  \E x \in Values : Admissible(Append(a, x)) /\ Extend(x, MaxLen)

ReadBigValue == \E x \in BigValues : Extend(x, MaxLenBig)

(* debug_compare(a, mode) *)
DebugCompare ==
  \E m \in {"ordered", "unordered"} :
    /\ prog = "none"
    /\ prog' = "debug_compare"
    /\ outcome' = "returned"
    /\ mode' = m
    /\ cnt_brute' = Cardinality(list_triplets_bruteforce(a))
    /\ opt' = count_triplets_optimized(a, m)
    /\ res_naive' = 0
    /\ res_opt' = 0
    /\ count' = 0
    /\ ret' = 0
    /\ UNCHANGED a

(* run_benchmark, one size with n <= max_naive_n: both algorithms on a *)
RunBenchmark ==
  /\ prog = "none"
  /\ prog' = "run_benchmark"
  /\ outcome' = "returned"
  /\ mode' = "none"
  /\ cnt_brute' = 0
  /\ opt' = 0
  /\ res_naive' = naive_triplets(a)
  /\ res_opt' = optimized_triplets(a)
  /\ count' = 0
  /\ ret' = 0
  /\ UNCHANGED a

SolveNaiveUnordered ==
  /\ prog = "none"
  /\ prog' = "solve_naive_unordered"
  /\ outcome' = "returned"
  /\ mode' = "none"
  /\ cnt_brute' = 0
  /\ opt' = 0
  /\ res_naive' = 0
  /\ res_opt' = 0
  /\ count' = solve_naive_unordered(a)
  /\ ret' = 0
  /\ UNCHANGED a

SolveOptimized ==
  /\ prog = "none"
  /\ prog' = "solve_optimized"
  /\ outcome' = "returned"
  /\ mode' = "none"
  /\ cnt_brute' = 0
  /\ opt' = 0
  /\ res_naive' = 0
  /\ res_opt' = 0
  /\ count' = 0
  /\ ret' = solve_optimized(a)
  /\ UNCHANGED a

Next ==
  \/ ReadValue
  \/ DebugCompare
  \/ RunBenchmark
  \/ SolveNaiveUnordered
  \/ SolveOptimized

Spec == Init /\ [][Next]_vars

(* the same scripts on values up to LIMIT, where only the divisor-of-mid  *)
(* algorithms are feasible                                                *)
NextBig ==
  \/ ReadBigValue
  \/ SolveOptimized

SpecBig == Init /\ [][NextBig]_vars

(* ------------------------- vocabulary of the claims -------------------- *)
AllPositive(s) == \A i \in 1..Len(s) : s[i] >= 1

InRange(s) == \A i \in 1..Len(s) : s[i] >= 1 /\ s[i] <= LIMIT

ValuesOf(s) == {s[i] : i \in 1..Len(s)}

Mult(s, v) == Cardinality({i \in 1..Len(s) : s[i] = v})

Permutations3(c) == c * (c - 1) * (c - 2)

(* D(s): c*(c-1)*(c-2) summed over the values of multiplicity c >= 3 *)
Degenerate(s) ==
  SumFn([v \in ValuesOf(s) |->
           IF Mult(s, v) >= 3 THEN Permutations3(Mult(s, v)) ELSE 0])

Front(s) == SubSeq(s, 1, Len(s) - 1)

(* the exchange of the first two elements and the rotation by one: the    *)
(* two together generate every permutation of the positions               *)
SwapFirstTwo(s) == IF Len(s) < 2 THEN s ELSE <<s[2], s[1]>> \o SubSeq(s, 3, Len(s))

Rotate(s) == IF Len(s) < 2 THEN s ELSE Tail(s) \o <<Head(s)>>

DivisorsAbove1(v) == {b \in 2..v : v % b = 0}

(* the terms cnt[val]*cnt[val/b]*cnt[val*b] over the values val of s and  *)
(* the divisors b > 1 of val whose two neighbours occur in s              *)
RatioSum(s) ==
  SumFn([p \in {q \in ValuesOf(s) \X ValuesOf(s) :
                  /\ q[1] >= 1 /\ q[2] >= 1
                  /\ q[1] % q[2] = 0
                  /\ q[1] \div q[2] > 1
                  /\ Mul(q[1], q[1] \div q[2]) <= LIMIT
                  /\ Mul(q[1], q[1] \div q[2]) \in ValuesOf(s)} |->
           Mult(s, p[1]) * Mult(s, p[2]) * Mult(s, Mul(p[1], p[1] \div p[2]))])

(* ------------------------------- claims -------------------------------- *)

(* C1: on positive integers, count_triplets_optimized in ordered mode     *)
(* returns len(list_triplets_bruteforce(a)): debug_compare reports a      *)
(* match.                                                                 *)
C1_OrderedMatchesBruteforce ==
  (prog = "debug_compare" /\ mode = "ordered" /\ AllPositive(a))
    => opt = cnt_brute

C1_Witness ==
  /\ prog = "debug_compare" /\ mode = "ordered"
  /\ a = <<4, 6, 9>>
  /\ opt = 2 /\ cnt_brute = 2

(* C2: on integers in [1, LIMIT], optimized_triplets equals               *)
(* naive_triplets: run_benchmark never reports a MISMATCH.                *)
C2_BenchmarkNeverMismatches ==
  (prog = "run_benchmark" /\ InRange(a)) => res_naive = res_opt

(* C3, as claimed: on positive integers, the unordered count equals the   *)
(* count of solve_naive_unordered (middle index j, outer pair i < k).     *)
C3_UnorderedMatchesNaiveUnordered ==
  (prog = "debug_compare" /\ mode = "unordered" /\ AllPositive(a))
    => opt = solve_naive_unordered(a)

(* C3, amended: the unordered count equals the count of                   *)
(* solve_naive_unordered plus c*(c-1)*(c-2)/2 for every value of          *)
(* multiplicity c >= 3: the all-equal triples are counted as ordered      *)
(* permutations, only outer pairs of two different values are counted     *)
(* once.                                                                  *)
C3_UnorderedIsNaivePlusHalfDegenerate ==
  (prog = "debug_compare" /\ mode = "unordered" /\ AllPositive(a))
    => opt = solve_naive_unordered(a) + (Degenerate(a) \div 2)

C3_Witness ==
  /\ prog = "debug_compare" /\ mode = "unordered"
  /\ a = <<1, 1, 1, 2, 4>>
  /\ opt = 9 /\ solve_naive_unordered(a) = 6

(* C4: the counting operation fails with InvalidInput and returns no      *)
(* count when an element is <= 0 or above LIMIT.                          *)
C4_InvalidInputRejected ==
  (/\ prog \in {"debug_compare", "run_benchmark", "solve_optimized"}
   /\ \E i \in 1..Len(a) : a[i] <= 0 \/ a[i] > LIMIT)
    => outcome = "InvalidInput"

(* C5: a positive value repeated c times, c >= 0, yields c*(c-1)*(c-2)    *)
(* in ordered mode, all of it from the all-equal term and nothing from    *)
(* the loop over divisor pairs.                                           *)
C5_AllEqualYieldsPermutations ==
  (/\ prog = "debug_compare" /\ mode = "ordered" /\ AllPositive(a)
   /\ \A i, j \in 1..Len(a) : a[i] = a[j])
    => /\ opt = Permutations3(Len(a))
       /\ GeneralCase(Counter(a), "ordered") = 0

C5_Witness ==
  /\ prog = "debug_compare" /\ mode = "ordered"
  /\ a = <<2, 2, 2>>
  /\ opt = 6

(* C6: on positive integers, ordered(a) = 2*unordered(a) - D(a): the      *)
(* all-equal term is the same in both modes and the loop over divisor     *)
(* pairs adds in ordered mode twice what it adds in unordered mode.       *)
C6_OrderedIsTwiceUnorderedMinusDegenerate ==
  (prog = "debug_compare" /\ mode = "ordered" /\ AllPositive(a))
    => /\ opt = 2 * count_triplets_optimized(a, "unordered") - Degenerate(a)
       /\ AllEqualCase(Counter(a)) = Degenerate(a)

C6_Witness ==
  /\ prog = "debug_compare" /\ mode = "ordered"
  /\ a = <<2, 1, 2, 4, 2>>
  /\ opt = 12
  /\ count_triplets_optimized(a, "unordered") = 9

(* C7: on positive integers, appending a value that already occurs never  *)
(* decreases the ordered count.                                           *)
C7_AppendExistingNeverDecreases ==
  (/\ prog = "debug_compare" /\ mode = "ordered" /\ AllPositive(a)
   /\ Len(a) >= 1
   /\ a[Len(a)] \in ValuesOf(Front(a)))
    => opt >= count_triplets_optimized(Front(a), "ordered")

C7_Witness ==
  /\ prog = "debug_compare" /\ mode = "ordered"
  /\ a = <<1, 2, 4, 2>>
  /\ opt = 4
  /\ count_triplets_optimized(Front(a), "ordered") = 2

(* C8: on integers in [1, LIMIT], solve_optimized prints what             *)
(* optimized_triplets returns, whichever branch each value takes: the     *)
(* all-equal term plus, for each mid and each divisor b > 1 of mid with   *)
(* mid*b <= LIMIT, cnt[mid]*cnt[mid/b]*cnt[mid*b].                        *)
C8_SolveOptimizedMatchesGraph ==
  (prog = "solve_optimized" /\ InRange(a))
    => /\ ret = optimized_triplets(a)
       /\ ret = Degenerate(a) + RatioSum(a)

C8_Witness ==
  /\ prog = "solve_optimized"
  /\ a = <<1000, 1000000, 1000000000>>
  /\ ret = 1

(* C9: for val < 1,000,000 the divisor loop of solve_optimized tries as   *)
(* ratio b the divisors of val above 1, each once, with left = val/b and  *)
(* right = val*b, so each such b with both neighbours present adds its    *)
(* term once.                                                             *)
C9_DivisorLoopRatiosOnce ==
  prog = "solve_optimized"
    => /\ \A val \in ValuesOf(a) :
            (val >= 1 /\ val < 1000000)
              => LET ps == Ratios(val)
                 IN /\ {ps[n].b : n \in 1..Len(ps)} = DivisorsAbove1(val)
                    /\ \A n, k \in 1..Len(ps) : ps[n].b = ps[k].b => n = k
                    /\ \A n \in 1..Len(ps) :
                         /\ ps[n].left * ps[n].b = val
                         /\ ps[n].right = val * ps[n].b
       /\ ret = Degenerate(a) + RatioSum(a)

C9_Witness ==
  /\ prog = "solve_optimized"
  /\ a = <<2, 4, 8>>
  /\ ret = 1

(* C10: count_triplets_optimized depends, in both modes, only on the      *)
(* multiset of the input: exchanging the first two elements of the input  *)
(* or rotating it, hence any permutation, leaves the count unchanged.     *)
C10_PermutationInvariant ==
  prog = "debug_compare"
    => /\ count_triplets_optimized(SwapFirstTwo(a), mode) = opt
       /\ count_triplets_optimized(Rotate(a), mode) = opt

C10_Witness ==
  /\ prog = "debug_compare" /\ mode = "unordered"
  /\ a = <<4, 2, 2, 1>>
  /\ opt = 2
  /\ count_triplets_optimized(<<2, 4, 1, 2>>, "unordered") = 2

(* C11: the ordered brute-force count of naive_triplets is exactly twice  *)
(* the count solve_naive_unordered computes with i < k on the outer       *)
(* indices, on every input, zero values included.                         *)
C11_NaiveIsTwiceNaiveUnordered ==
  /\ prog = "run_benchmark" => res_naive = 2 * solve_naive_unordered(a)
  /\ prog = "solve_naive_unordered" => naive_triplets(a) = 2 * count

C11_Witness ==
  /\ prog = "solve_naive_unordered"
  /\ a = <<2, 2, 2, 1, 4>>
  /\ count = 6
  /\ naive_triplets(a) = 12

=============================================================================
